---- MODULE Spec2Model ----
(***************************************************************************)
(* Model of the cert-manager CSI node driver: the volume lifecycle         *)
(* controller (pkg/driver/nodeserver.go), the issuance engine              *)
(* (pkg/certmanager/certmanager.go), attribute validation                  *)
(* (pkg/apis/validation/validation.go) and the renewal scheduler           *)
(* (pkg/renew), together with the external issuing authority, the local    *)
(* filesystem under the data root and the mount table.                     *)
(***************************************************************************)
EXTENDS Integers, Sequences, FiniteSets, TLC

VARIABLES
    now,        \* wall clock, in abstract ticks
    nextKey,    \* number of the next key util.NewRSAKey generates
    crs,        \* CertificateRequest resources held by the API server
    fs,         \* per volume id: the directory dataRoot/id and its files
    mounts,     \* target paths that are active mount points
    ctl,        \* the NodePublishVolume / NodeUnpublishVolume call in progress or just returned
    iss,        \* the CreateNewCertificate call of the request-handling path
    watching,   \* Renewer registry: volume id -> its registered watcher
    sleepers,   \* watcher goroutines waiting for their timer or their cancellation
    firing,     \* watcher goroutines whose timer expired: renewals in flight
    fn,         \* the call of a validation function under study, its argument and result
    cancelled   \* history, per volume id: what NodeUnpublishVolume has done since the
                \* last NodePublishVolume of the id and the last start: "no" nothing,
                \* "watcher" cancelled the watcher, "removed" also removed the directory

vars == <<now, nextKey, crs, fs, mounts, ctl, iss, watching, sleepers, firing, fn, cancelled>>

----------------------------------------------------------------------------
(* Bounds of the model *)

\* the clock stops at MaxTime
MaxTime == 1
\* key pairs util.NewRSAKey generates in one run
MaxKey == 2
\* renewals in flight at the same time
MaxFiring == 1
\* polls of waitForCertificateRequestReady before it times out
MaxPolls == 2

Vols == {"v1"}
Targets == {"t1"}

----------------------------------------------------------------------------
(* Volume attributes: map[string]string *)

Absent == "<absent>"

AttrKeys == {"IssuerNameKey", "CommonNameKey", "DurationKey", "RenewBeforeKey",
             "IsCAKey", "DisableAutoRenewKey", "ReusePrivateKey",
             "CertFileKey", "KeyFileKey",
             "CSIPodNameKey", "CSIPodNamespaceKey", "CSIPodUIDKey", "CSIEphemeralKey"}

\* attr[k] of a Go map: the empty string when the key is absent
Get(attr, k) == IF attr[k] = Absent THEN "" ELSE attr[k]
\* _, ok := attr[k]
Has(attr, k) == attr[k] # Absent

NoAttrs == [k \in AttrKeys |-> Absent]

\* time.ParseDuration on the duration strings the model uses; 0 stands for a parse error
ParseDuration(s) ==
    CASE s = "1t" -> 1
      [] s = "2t" -> 2
      [] s = "3t" -> 3
      [] OTHER -> 0

DurationOK(s) == ParseDuration(s) > 0

\* cmapi.DefaultCertificateDuration, in ticks
DefaultCertificateDuration == 2
\* default renew-before offset, in ticks
DefaultRenewBefore == 1

\* strings.Contains(s, "..") on the file names the model uses
ContainsDotDot(s) == s \in {"..", "../crt.pem", "a/../b"}

----------------------------------------------------------------------------
(* pkg/apis/validation *)

boolValue(s, k, errs) ==
    IF s = "" THEN errs
    ELSE IF s # "false" /\ s # "true" THEN Append(errs, k) ELSE errs

durationParse(s, k, errs) ==
    IF s = "" THEN errs
    ELSE IF ~DurationOK(s) THEN Append(errs, k) ELSE errs

filepathBreakout(s, k, errs) ==
    IF ContainsDotDot(s) THEN Append(errs, k) ELSE errs

\* a faulty ValidateAttributes that returns at the first violation
ValidateAttributes_FirstOnly(attr) ==
    LET e0 == IF Get(attr, "IssuerNameKey") = "" THEN <<"IssuerNameKey">> ELSE <<>>
        e1 == IF e0 # <<>> THEN e0 ELSE boolValue(Get(attr, "IsCAKey"), "IsCAKey", e0)
        e2 == IF e1 # <<>> THEN e1 ELSE durationParse(Get(attr, "DurationKey"), "DurationKey", e1)
        e3 == IF e2 # <<>> THEN e2 ELSE filepathBreakout(Get(attr, "CertFileKey"), "CertFileKey", e2)
        e4 == IF e3 # <<>> THEN e3 ELSE filepathBreakout(Get(attr, "KeyFileKey"), "KeyFileKey", e3)
        e5 == IF e4 # <<>> THEN e4 ELSE durationParse(Get(attr, "RenewBeforeKey"), "RenewBeforeKey", e4)
        e6 == IF e5 # <<>> THEN e5
              ELSE boolValue(Get(attr, "DisableAutoRenewKey"), "DisableAutoRenewKey", e5)
        e7 == IF e6 # <<>> THEN e6 ELSE boolValue(Get(attr, "ReusePrivateKey"), "ReusePrivateKey", e6)
    IN  e7

\* the list of violated keys, in the order the messages are joined; <<>> is a nil error
ValidateAttributes(attr) ==
    LET e0 == IF Get(attr, "IssuerNameKey") = "" THEN <<"IssuerNameKey">> ELSE <<>>
        e1 == boolValue(Get(attr, "IsCAKey"), "IsCAKey", e0)
        e2 == durationParse(Get(attr, "DurationKey"), "DurationKey", e1)
        e3 == filepathBreakout(Get(attr, "CertFileKey"), "CertFileKey", e2)
        e4 == filepathBreakout(Get(attr, "KeyFileKey"), "KeyFileKey", e3)
        e5 == durationParse(Get(attr, "RenewBeforeKey"), "RenewBeforeKey", e4)
        e6 == boolValue(Get(attr, "DisableAutoRenewKey"), "DisableAutoRenewKey", e5)
        e7 == boolValue(Get(attr, "ReusePrivateKey"), "ReusePrivateKey", e6)
    IN  e7

\* defaults.SetDefaultAttributes: fills the unset recognized keys
SetDefaultAttributes(attr) ==
    LET def(k) ==
            CASE k = "DurationKey" -> "2t"
              [] k = "RenewBeforeKey" -> "1t"
              [] k = "IsCAKey" -> "false"
              [] k = "DisableAutoRenewKey" -> "false"
              [] k = "ReusePrivateKey" -> "false"
              [] k = "CertFileKey" -> "crt.pem"
              [] k = "KeyFileKey" -> "key.pem"
              [] OTHER -> Absent
    IN  [k \in AttrKeys |-> IF attr[k] = Absent THEN def(k) ELSE attr[k]]

----------------------------------------------------------------------------
(* NodePublishVolumeRequest *)

\* cap: "nil" (no capability), "mount", "block"
Request(id, target, attr, cap) ==
    [volumeId |-> id, targetPath |-> target, volumeContext |-> attr, capability |-> cap]

\* a faulty validateVolumeAttributes that accepts block access
validateVolumeAttributes_AcceptsBlock(req) ==
    LET attr == req.volumeContext
        ephemeralVolume == Get(attr, "CSIEphemeralKey") = "true" \/ Get(attr, "CSIEphemeralKey") = ""
        e0 == IF ~ephemeralVolume THEN <<"non-ephemeral">> ELSE <<>>
        e1 == IF ~Has(attr, "CSIPodNameKey") \/ ~Has(attr, "CSIPodNamespaceKey")
              THEN Append(e0, "pod name/namespace") ELSE e0
        e2 == IF req.capability = "nil" THEN Append(e1, "volume capability missing") ELSE e1
        e3 == IF req.volumeId = "" THEN Append(e2, "volume ID missing") ELSE e2
        e4 == IF req.targetPath = "" THEN Append(e3, "target path missing") ELSE e3
    IN  e4

validateVolumeAttributes(req) ==
    LET attr == req.volumeContext
        ephemeralVolume == Get(attr, "CSIEphemeralKey") = "true" \/ Get(attr, "CSIEphemeralKey") = ""
        e0 == IF ~ephemeralVolume THEN <<"non-ephemeral">> ELSE <<>>
        e1 == IF ~Has(attr, "CSIPodNameKey") \/ ~Has(attr, "CSIPodNamespaceKey")
              THEN Append(e0, "pod name/namespace") ELSE e0
        e2 == IF req.capability = "nil" THEN Append(e1, "volume capability missing")
              ELSE IF req.capability = "block" THEN Append(e1, "block access type not supported")
              ELSE e1
        e3 == IF req.volumeId = "" THEN Append(e2, "volume ID missing") ELSE e2
        e4 == IF req.targetPath = "" THEN Append(e3, "target path missing") ELSE e3
    IN  e4

----------------------------------------------------------------------------
(* Records *)

\* csiapi.MetaData: path is dataRoot/id, so the id stands for the path
MetaData(id, name, size, path, target, attr) ==
    [id |-> id, name |-> name, size |-> size, path |-> path, target |-> target, attrs |-> attr]
NoVol == [id |-> "", name |-> <<>>, size |-> 0, path |-> <<>>, target |-> "", attrs |-> NoAttrs]

\* an issued certificate: key is the number of the key whose public half it certifies
NoCert == [notAfter |-> 0, key |-> 0, cn |-> ""]

\* the directory dataRoot/id: metadata file, certificate file, key file
NoDir == [dir |-> FALSE, meta |-> NoVol, cert |-> NoCert, key |-> 0]

NoCR == [namespace |-> "", name |-> "", cn |-> "", duration |-> 0, isCA |-> FALSE,
         issuer |-> "", key |-> 0, ownerKind |-> "", ownerName |-> "", ownerUID |-> "",
         status |-> "none", cert |-> NoCert]

\* a CreateNewCertificate call: pc is "none" when there is none; cr is the
\* resource the polling returned; before is the NotAfter of the certificate file
\* when a renewal began; why is the error the polling ended with
NoIssue == [pc |-> "none", vol |-> NoVol, key |-> 0, reused |-> FALSE, created |-> FALSE,
            deleted |-> FALSE, polls |-> 0, cr |-> NoCR, wrote |-> FALSE,
            before |-> 0, why |-> ""]

\* no validation function is being called
NoFn == [name |-> "none", pc |-> "idle", arg |-> NoAttrs, res |-> <<>>]

\* a watcher: the volume it renews and the expiry it was armed with
NoWatch == [vol |-> NoVol, notAfter |-> 0]

\* a controller call: what it was asked, what it did and what it returned.
\* killed, unmounted and removed say that KillWatcher, Unmount and RemoveAll were
\* called; unmountErr and removeErr that the call failed.
NoCall == [op |-> "none", pc |-> "idle", id |-> "", target |-> "", vol |-> NoVol,
           code |-> "", err |-> "", cause |-> "",
           issued |-> FALSE, created |-> FALSE, deleted |-> FALSE, polled |-> FALSE,
           wrote |-> FALSE, watched |-> FALSE,
           mntPoint |-> FALSE, mounted |-> FALSE, notified |-> FALSE,
           metaOK |-> FALSE, killed |-> FALSE, unmounted |-> FALSE, unmountErr |-> FALSE,
           removed |-> FALSE, removeErr |-> FALSE,
           corrupt |-> {}, discoverErr |-> FALSE]

----------------------------------------------------------------------------
(* pkg/util: certificate request helpers *)

DurationOf(attr) ==
    IF Has(attr, "DurationKey") THEN ParseDuration(Get(attr, "DurationKey"))
    ELSE DefaultCertificateDuration

\* the CertificateRequest CreateNewCertificate builds for a volume and a key bundle
\* (lines 60-132)
BuildCertificateRequest(vol, key) ==
    LET attr == vol.attrs
    IN  [NoCR EXCEPT !.namespace = Get(attr, "CSIPodNamespaceKey"),
                     !.name = vol.id,
                     !.cn = Get(attr, "CommonNameKey"),
                     !.duration = DurationOf(attr),
                     !.isCA = (Get(attr, "IsCAKey") = "true"),
                     !.issuer = Get(attr, "IssuerNameKey"),
                     !.key = key,
                     !.ownerKind = "Pod",
                     !.ownerName = Get(attr, "CSIPodNamespaceKey"),
                     !.ownerUID = Get(attr, "CSIPodUIDKey"),
                     !.status = "pending"]

\* util.CertificateRequestMatchesSpec(cr, attr): TRUE stands for a nil error.
\* It is given the attributes only, never the key bundle.
CertificateRequestMatchesSpec(cr, attr) ==
    /\ cr.cn = Get(attr, "CommonNameKey")
    /\ cr.duration = DurationOf(attr)
    /\ cr.isCA = (Get(attr, "IsCAKey") = "true")
    /\ cr.issuer = Get(attr, "IssuerNameKey")

CertificateRequestReady(cr) == cr.status \in {"ready", "readyfailed"}

CertificateRequestFailed(cr) == cr.status \in {"failed", "readyfailed"}

----------------------------------------------------------------------------
(* pkg/certmanager: the issuance engine *)

\* the response of a returned call is delivered before anything else happens
Serving == ctl.pc # "done"

Namespace(vol) == Get(vol.attrs, "CSIPodNamespaceKey")

\* CertificateRequests(namespace).Get(name) on the resources in store: the set is
\* empty on NotFound
ApiGet(store, namespace, name) == {cr \in store : cr.namespace = namespace /\ cr.name = name}

\* checkExistingCertificateRequest on the resources in store; fault names the API
\* call that returns an error ("get", "delete") if any.  The result carries ok,
\* whether an error is returned, and the resources left in the API server.
checkExistingCertificateRequest(store, vol, fault) ==
    LET found == ApiGet(store, Namespace(vol), vol.id)
    IN  IF fault = "get"
        THEN [ok |-> FALSE, err |-> TRUE, store |-> store, deleted |-> FALSE]
        ELSE IF found = {}
        THEN [ok |-> FALSE, err |-> FALSE, store |-> store, deleted |-> FALSE]
        ELSE LET cr == CHOOSE c \in found : TRUE
             IN  IF ~CertificateRequestMatchesSpec(cr, vol.attrs)
                 THEN IF fault = "delete"
                      THEN [ok |-> FALSE, err |-> TRUE, store |-> store, deleted |-> FALSE]
                      ELSE [ok |-> FALSE, err |-> FALSE, store |-> store \ {cr}, deleted |-> TRUE]
                 ELSE [ok |-> TRUE, err |-> FALSE, store |-> store, deleted |-> FALSE]

\* The steps of CreateNewCertificate.  Each takes the call c so far and gives the
\* call after the step, the API server's resources and the filesystem after it,
\* and done: "err" when the call returns an error, "ok" when it returns the
\* certificate, "no" when it goes on.
Result(c, store, fsys, done) == [c |-> c, crs |-> store, fs |-> fsys, done |-> done]

\* CreateNewCertificate up to the Create call (lines 48-139)
CreateNewCertificate(c, store, fsys, fault) ==
    LET chk == checkExistingCertificateRequest(store, c.vol, fault)
        cr == BuildCertificateRequest(c.vol, c.key)
    IN  IF chk.err
        THEN Result(c, store, fsys, "err")
        ELSE IF chk.ok
        THEN Result([c EXCEPT !.pc = "poll", !.reused = TRUE], store, fsys, "no")
        ELSE IF fault = "create" \/ ApiGet(chk.store, cr.namespace, cr.name) # {}
        THEN Result([c EXCEPT !.deleted = chk.deleted], chk.store, fsys, "err")
        ELSE Result([c EXCEPT !.pc = "poll", !.created = TRUE, !.deleted = chk.deleted],
                    chk.store \cup {cr}, fsys, "no")

\* a faulty poll that looks at the Ready condition before the Failed reason
waitForCertificateRequestReady_ReadyFirst(c, store, fsys, fault) ==
    LET c1 == [c EXCEPT !.polls = @ + 1]
        found == {cr \in store : cr.namespace = Get(c.vol.attrs, "CSIPodNamespaceKey")
                                   /\ cr.name = c.vol.id}
    IN  IF fault \/ found = {}
        THEN [c |-> [c1 EXCEPT !.why = "get"], crs |-> store, fs |-> fsys, done |-> "err"]
        ELSE LET cr == CHOOSE e \in found : TRUE
             IN  IF cr.status \in {"ready", "readyfailed"}
                 THEN [c |-> [c1 EXCEPT !.pc = "wmeta", !.cr = cr], crs |-> store,
                       fs |-> fsys, done |-> "no"]
                 ELSE IF cr.status = "failed"
                 THEN [c |-> [c1 EXCEPT !.why = "failed"], crs |-> store, fs |-> fsys,
                       done |-> "err"]
                 ELSE IF c1.polls >= MaxPolls
                 THEN [c |-> [c1 EXCEPT !.why = "timeout"], crs |-> store, fs |-> fsys,
                       done |-> "err"]
                 ELSE [c |-> c1, crs |-> store, fs |-> fsys, done |-> "no"]

\* a faulty poll that has no timeout
waitForCertificateRequestReady_NoTimeout(c, store, fsys, fault) ==
    LET c1 == [c EXCEPT !.polls = @ + 1]
        found == {cr \in store : cr.namespace = Get(c.vol.attrs, "CSIPodNamespaceKey")
                                   /\ cr.name = c.vol.id}
    IN  IF fault \/ found = {}
        THEN [c |-> [c1 EXCEPT !.why = "get"], crs |-> store, fs |-> fsys, done |-> "err"]
        ELSE LET cr == CHOOSE e \in found : TRUE
             IN  IF cr.status \in {"failed", "readyfailed"}
                 THEN [c |-> [c1 EXCEPT !.why = "failed"], crs |-> store, fs |-> fsys,
                       done |-> "err"]
                 ELSE IF cr.status # "ready"
                 THEN [c |-> c1, crs |-> store, fs |-> fsys, done |-> "no"]
                 ELSE [c |-> [c1 EXCEPT !.pc = "wmeta", !.cr = cr], crs |-> store,
                       fs |-> fsys, done |-> "no"]

\* one poll of waitForCertificateRequestReady (lines 262-292); fault: the Get
\* fails.  The poll that finds the resource neither failed nor ready is the last
\* one when it is the MaxPolls-th: wait.PollImmediate then returns its timeout
\* error.
waitForCertificateRequestReady(c, store, fsys, fault) ==
    LET c1 == [c EXCEPT !.polls = @ + 1]
        found == ApiGet(store, Namespace(c.vol), c.vol.id)
    IN  IF fault \/ found = {}
        THEN Result([c1 EXCEPT !.why = "get"], store, fsys, "err")
        ELSE LET cr == CHOOSE e \in found : TRUE
             IN  IF CertificateRequestFailed(cr)
                 THEN Result([c1 EXCEPT !.why = "failed"], store, fsys, "err")
                 ELSE IF ~CertificateRequestReady(cr)
                 THEN IF c1.polls >= MaxPolls
                      THEN Result([c1 EXCEPT !.why = "timeout"], store, fsys, "err")
                      ELSE Result(c1, store, fsys, "no")
                 ELSE Result([c1 EXCEPT !.pc = "wmeta", !.cr = cr], store, fsys, "no")

\* ioutil.WriteFile of the metadata file (lines 149-158): fails when the directory is gone
WriteMetaData(c, store, fsys, ok) ==
    LET id == c.vol.id
    IN  IF ok /\ fsys[id].dir
        THEN Result([c EXCEPT !.pc = "wfiles", !.wrote = TRUE], store,
                    [fsys EXCEPT ![id].meta = c.vol], "no")
        ELSE Result(c, store, fsys, "err")

\* util.WriteFile is given paths made of the directory of the volume and of a
\* file name from the attributes, which may name subdirectories: it creates the
\* directories of the path before it writes the file
MkdirParent(fsys, id) == [fsys EXCEPT ![id].dir = TRUE]

\* util.WriteFile of the certificate and of the private key (lines 162-190).  out: "certErr" when the
\* certificate cannot be written, "keyErr" when a step after it fails (the CA
\* bundle, the decoding, the key).
WriteFiles(c, store, fsys, out) ==
    LET id == c.vol.id
        withCert == [MkdirParent(fsys, id) EXCEPT ![id].cert = c.cr.cert]
    IN  CASE out = "certErr" -> Result(c, store, fsys, "err")
          [] out = "keyErr" -> Result([c EXCEPT !.wrote = TRUE], store, withCert, "err")
          [] OTHER -> Result([c EXCEPT !.pc = "ok", !.wrote = TRUE], store,
                             [withCert EXCEPT ![id].key = c.key], "ok")

----------------------------------------------------------------------------
(* The external issuing authority *)

\* signs a pending request: the certificate carries the request's public key
AuthoritySign ==
    /\ Serving
    /\ \E cr \in crs :
         /\ cr.status = "pending"
         /\ crs' = (crs \ {cr}) \cup
                   {[cr EXCEPT !.status = "ready",
                               !.cert = [notAfter |-> now + cr.duration, key |-> cr.key, cn |-> cr.cn]]}
    /\ UNCHANGED <<now, nextKey, fs, mounts, ctl, iss, watching, sleepers, firing, fn, cancelled>>

\* marks a pending request as failed: the Ready condition gets the reason
\* "Failed", with the status False or with the status True
AuthorityFail ==
    /\ Serving
    /\ \E cr \in crs, status \in {"failed", "readyfailed"} :
         /\ cr.status = "pending"
         /\ crs' = (crs \ {cr}) \cup {[cr EXCEPT !.status = status]}
    /\ UNCHANGED <<now, nextKey, fs, mounts, ctl, iss, watching, sleepers, firing, fn, cancelled>>

----------------------------------------------------------------------------
(* pkg/renew: the renewal scheduler *)

RenewDisabled(vol) == Get(vol.attrs, "DisableAutoRenewKey") = "true"

RenewBefore(vol) ==
    IF Get(vol.attrs, "RenewBeforeKey") = "" THEN DefaultRenewBefore
    ELSE ParseDuration(Get(vol.attrs, "RenewBeforeKey"))

\* a faulty WatchCert that leaves the prior watcher of the id sleeping
WatchCert_KeepsPrior(w, sl, vol, notAfter) ==
    IF Get(vol.attrs, "DisableAutoRenewKey") = "true"
    THEN [watching |-> w, sleepers |-> sl]
    ELSE LET new == [vol |-> vol, notAfter |-> notAfter]
         IN  [watching |-> [w EXCEPT ![vol.id] = new], sleepers |-> sl \cup {new}]

\* Renewer.WatchCert on registry w and sleeping goroutines sl: a no-op when
\* renewal is disabled; otherwise the prior watcher of the id is cancelled and a
\* new one, sleeping until notAfter - renewBefore, is registered.
WatchCert(w, sl, vol, notAfter) ==
    IF RenewDisabled(vol)
    THEN [watching |-> w, sleepers |-> sl]
    ELSE LET new == [vol |-> vol, notAfter |-> notAfter]
         IN  [watching |-> [w EXCEPT ![vol.id] = new],
              sleepers |-> (sl \ {w[vol.id]}) \cup {new}]

\* Renewer.KillWatcher: cancels the registered watcher of the id, if any
KillWatcher(w, sl, id) ==
    [watching |-> [w EXCEPT ![id] = NoWatch], sleepers |-> sl \ {w[id]}]

\* the volumes Discover finds: a directory with a readable metadata file and a certificate
Discoverable(fsys, id) == fsys[id].dir /\ fsys[id].meta # NoVol /\ fsys[id].cert # NoCert

RECURSIVE DiscoverFrom(_, _, _)
DiscoverFrom(S, fsys, st) ==
    IF S = {} THEN st
    ELSE LET id == CHOOSE x \in S : TRUE
             st1 == IF Discoverable(fsys, id)
                    THEN WatchCert(st.watching, st.sleepers, fsys[id].meta, fsys[id].cert.notAfter)
                    ELSE st
         IN  DiscoverFrom(S \ {id}, fsys, st1)

\* Renewer.Discover on the empty registry of a new Renewer
Discover(fsys) ==
    DiscoverFrom(Vols, fsys, [watching |-> [id \in Vols |-> NoWatch], sleepers |-> {}])

\* the time at which the timer of watcher s expires: notAfter - renewBefore, or
\* at once when that time has passed
WakeTime(s) ==
    LET due == s.notAfter - RenewBefore(s.vol)
    IN  IF due > now THEN due ELSE now

\* The timer of the sleeping watcher s expires: the watcher leaves the registry
\* and its goroutine calls RenewCertificate, which picks the key bundle (lines
\* 193-226) and calls CreateNewCertificate; when the key file cannot be read
\* the renewal fails at once.
RenewCertificate(s) ==
    /\ Serving
    /\ s \in sleepers
    /\ Cardinality(firing) < MaxFiring
    /\ now' = WakeTime(s)
    /\ now' <= MaxTime
    /\ \E fault \in {"none", "get", "delete", "create"} :
         LET vol == s.vol
             id == vol.id
             fresh == Get(vol.attrs, "ReusePrivateKey") # "true"
             readable == fs[id].dir /\ fs[id].key # 0
             c0 == [NoIssue EXCEPT !.pc = "check", !.vol = vol, !.before = fs[id].cert.notAfter,
                                   !.key = IF fresh THEN nextKey ELSE fs[id].key]
             r == CreateNewCertificate(c0, crs, fs, fault)
         IN  /\ sleepers' = sleepers \ {s}
             /\ watching' = [watching EXCEPT ![id] = IF @ = s THEN NoWatch ELSE @]
             /\ fresh => nextKey <= MaxKey
             /\ nextKey' = IF fresh THEN nextKey + 1 ELSE nextKey
             /\ IF ~fresh /\ ~readable
                THEN UNCHANGED <<crs, firing>>
                ELSE /\ crs' = r.crs
                     /\ firing' = IF r.done = "err" THEN firing ELSE firing \cup {r.c}
    /\ UNCHANGED <<fs, mounts, ctl, iss, fn, cancelled>>

\* a step of the renewal c gave r
RenewalStep(c, r) ==
    /\ crs' = r.crs
    /\ fs' = r.fs
    /\ firing' = IF r.done = "err" THEN firing \ {c} ELSE (firing \ {c}) \cup {r.c}
    /\ UNCHANGED <<now, nextKey, mounts, ctl, iss, watching, sleepers, fn, cancelled>>

RenewalPolls(c) ==
    /\ Serving
    /\ c \in firing
    /\ c.pc = "poll"
    /\ \E fault \in BOOLEAN : RenewalStep(c, waitForCertificateRequestReady(c, crs, fs, fault))

RenewalWritesMetaData(c) ==
    /\ Serving
    /\ c \in firing
    /\ c.pc = "wmeta"
    /\ \E ok \in BOOLEAN : RenewalStep(c, WriteMetaData(c, crs, fs, ok))

RenewalWritesFiles(c) ==
    /\ Serving
    /\ c \in firing
    /\ c.pc = "wfiles"
    /\ \E out \in {"ok", "certErr", "keyErr"} : RenewalStep(c, WriteFiles(c, crs, fs, out))

\* RenewCertificate returned the new certificate: the goroutine registers the
\* successor watcher and ends
RenewDone(c) ==
    /\ Serving
    /\ c \in firing
    /\ c.pc = "ok"
    /\ LET st == WatchCert(watching, sleepers, c.vol, c.cr.cert.notAfter)
       IN  /\ watching' = st.watching
           /\ sleepers' = st.sleepers
    /\ firing' = firing \ {c}
    /\ UNCHANGED <<now, nextKey, crs, fs, mounts, ctl, iss, fn, cancelled>>

----------------------------------------------------------------------------
(* pkg/driver: the volume lifecycle controller *)

\* a faulty os.RemoveAll that reports success and removes nothing
RemoveAll_RemovesNothing(fsys, id) == fsys

\* a faulty os.RemoveAll that deletes the files and leaves the directory
RemoveAll_LeavesDirectory(fsys, id) == [fsys EXCEPT ![id] = [NoDir EXCEPT !.dir = TRUE]]

\* os.RemoveAll(dataRoot/id) when it succeeds (lines 140 and 187)
RemoveAll(fsys, id) == [fsys EXCEPT ![id] = NoDir]

\* a faulty registration step that never calls WatchCert
watchUnlessDisabled_Never(w, sl, vol, notAfter) == [watching |-> w, sleepers |-> sl]

\* the registration of the renewal watcher in NodePublishVolume (lines 103-108)
watchUnlessDisabled(w, sl, vol, notAfter) ==
    IF ~Has(vol.attrs, "DisableAutoRenewKey") \/ Get(vol.attrs, "DisableAutoRenewKey") # "true"
    THEN WatchCert(w, sl, vol, notAfter)
    ELSE [watching |-> w, sleepers |-> sl]

BaseAttrs == [NoAttrs EXCEPT !["IssuerNameKey"] = "ca-issuer",
                             !["CommonNameKey"] = "a",
                             !["CSIPodNameKey"] = "pod",
                             !["CSIPodNamespaceKey"] = "ns",
                             !["CSIPodUIDKey"] = "uid"]

\* the volume contexts the orchestrator sends
PublishAttrs ==
    { BaseAttrs,
      [BaseAttrs EXCEPT !["CommonNameKey"] = "b", !["ReusePrivateKey"] = "true"],
      [BaseAttrs EXCEPT !["DisableAutoRenewKey"] = "true"],
      [BaseAttrs EXCEPT !["IssuerNameKey"] = Absent] }

Requests ==
    { Request(id, target, attr, "mount") : id \in Vols, target \in Targets, attr \in PublishAttrs }
    \cup { Request("v1", "t1", BaseAttrs, "block"), Request("", "t1", BaseAttrs, "mount") }

\* what the controller records of the CreateNewCertificate call c it made
IssueFlags(call, c) ==
    [call EXCEPT !.issued = TRUE, !.created = c.created, !.deleted = c.deleted,
                 !.polled = c.polls > 0, !.wrote = c.wrote, !.cause = c.why]

\* the result of a returned call: the volume's attributes are dropped
Return(call, code, err) ==
    [call EXCEPT !.pc = "done", !.code = code, !.err = err, !.vol = NoVol]

kib == 1024
maxStorageCapacity == 100 * kib

\* the data root the driver was started with
dataRoot == "dataRoot"

\* filepath.Join of a directory and a name
Join(dir, name) == <<dir, name>>

\* util.BuildVolumeName: the name derived from the pod name and the id
BuildVolumeName(podName, id) == <<podName, id>>

\* a faulty createVolume that fails when the directory exists
createVolume_FailsOnExisting(fsys, id, targetPath, attr, mkdirOK) ==
    IF fsys[id].dir \/ ~mkdirOK
    THEN [err |-> TRUE, vol |-> NoVol, fs |-> fsys]
    ELSE [err |-> FALSE,
          vol |-> MetaData(id, BuildVolumeName(Get(attr, "CSIPodNameKey"), id),
                           maxStorageCapacity, Join(dataRoot, id), targetPath, attr),
          fs |-> [fsys EXCEPT ![id].dir = TRUE]]

\* createVolume (lines 243-265) on the filesystem fsys: os.MkdirAll does nothing
\* and succeeds when the directory exists, and fails otherwise when mkdirOK is
\* FALSE.  The result carries the record, the filesystem after the call and
\* whether an error is returned.
createVolume(fsys, id, targetPath, attr, mkdirOK) ==
    IF ~fsys[id].dir /\ ~mkdirOK
    THEN [err |-> TRUE, vol |-> NoVol, fs |-> fsys]
    ELSE [err |-> FALSE,
          vol |-> MetaData(id, BuildVolumeName(Get(attr, "CSIPodNameKey"), id),
                           maxStorageCapacity, Join(dataRoot, id), targetPath, attr),
          fs |-> [fsys EXCEPT ![id].dir = TRUE]]

\* NodePublishVolume up to the Create call of CreateNewCertificate (lines 65-98)
NodePublishVolume ==
    /\ ctl.pc = "idle"
    /\ \E req \in Requests, mkdirOK \in BOOLEAN, fault \in {"none", "get", "delete", "create"} :
         /\ cancelled' = [id \in Vols |-> IF id = req.volumeId THEN "no" ELSE cancelled[id]]
         /\ LET call == [NoCall EXCEPT !.op = "publish", !.id = req.volumeId,
                                       !.target = req.targetPath]
                attr == SetDefaultAttributes(req.volumeContext)
                cv == createVolume(fs, req.volumeId, req.targetPath, attr, mkdirOK)
                vol == cv.vol
            IN  IF validateVolumeAttributes(req) # <<>>
                THEN /\ ctl' = Return(call, "Internal", "validateVolumeAttributes")
                     /\ UNCHANGED <<fs, iss, nextKey, crs>>
                ELSE IF ValidateAttributes(attr) # <<>>
                THEN /\ ctl' = Return(call, "InvalidArgument", "ValidateAttributes")
                     /\ UNCHANGED <<fs, iss, nextKey, crs>>
                ELSE IF cv.err
                THEN /\ ctl' = Return(call, "Internal", "createVolume")
                     /\ UNCHANGED <<fs, iss, nextKey, crs>>
                ELSE LET c0 == [NoIssue EXCEPT !.pc = "check", !.vol = vol, !.key = nextKey]
                         r == CreateNewCertificate(c0, crs, cv.fs, fault)
                         call1 == [call EXCEPT !.pc = "issue", !.vol = vol, !.issued = TRUE]
                     IN  /\ nextKey <= MaxKey
                         /\ nextKey' = nextKey + 1
                         /\ fs' = r.fs
                         /\ crs' = r.crs
                         /\ IF r.done = "err"
                            THEN /\ iss' = NoIssue
                                 /\ ctl' = Return(IssueFlags(call1, r.c), "",
                                                  "failed to create new certificate")
                            ELSE /\ iss' = r.c
                                 /\ ctl' = call1
    /\ UNCHANGED <<now, mounts, watching, sleepers, firing, fn>>

\* a faulty error return of NodePublishVolume that registers the watcher first
PublishStep_WatchesOnError(r) ==
    LET st == WatchCert(watching, sleepers, ctl.vol, now)
    IN  /\ crs' = r.crs
        /\ fs' = r.fs
        /\ IF r.done = "err"
           THEN /\ iss' = NoIssue
                /\ ctl' = Return(IssueFlags(ctl, r.c), "", "failed to create new certificate")
                /\ watching' = st.watching
                /\ sleepers' = st.sleepers
           ELSE /\ iss' = r.c
                /\ UNCHANGED <<ctl, watching, sleepers>>
        /\ UNCHANGED <<now, nextKey, mounts, firing, fn, cancelled>>

\* a step of the controller's CreateNewCertificate call gave r; an error makes
\* NodePublishVolume return (lines 99-101)
PublishStep(r) ==
    /\ crs' = r.crs
    /\ fs' = r.fs
    /\ IF r.done = "err"
       THEN /\ iss' = NoIssue
            /\ ctl' = Return(IssueFlags(ctl, r.c), "", "failed to create new certificate")
       ELSE /\ iss' = r.c
            /\ UNCHANGED ctl
    /\ UNCHANGED <<now, nextKey, mounts, watching, sleepers, firing, fn, cancelled>>

PublishPolls ==
    /\ ctl.pc = "issue"
    /\ iss.pc = "poll"
    /\ \E fault \in BOOLEAN : PublishStep(waitForCertificateRequestReady(iss, crs, fs, fault))

PublishWritesMetaData ==
    /\ ctl.pc = "issue"
    /\ iss.pc = "wmeta"
    /\ \E ok \in BOOLEAN : PublishStep(WriteMetaData(iss, crs, fs, ok))

PublishWritesFiles ==
    /\ ctl.pc = "issue"
    /\ iss.pc = "wfiles"
    /\ \E out \in {"ok", "certErr", "keyErr"} : PublishStep(WriteFiles(iss, crs, fs, out))

\* NodePublishVolume after a successful CreateNewCertificate (lines 103-155)
PublishAfterIssue ==
    /\ ctl.pc = "issue"
    /\ iss.pc = "ok"
    /\ \E out \in {"ok", "metaErr", "mkdirErr", "mountErr", "mountErrRemoveErr"} :
         LET vol == ctl.vol
             id == vol.id
             st == watchUnlessDisabled(watching, sleepers, vol, iss.cr.cert.notAfter)
             mntPoint == vol.target \in mounts
             c1 == [IssueFlags(ctl, iss) EXCEPT !.watched = ~RenewDisabled(vol)]
             c2 == [c1 EXCEPT !.mntPoint = mntPoint]
         IN  /\ watching' = st.watching
             /\ sleepers' = st.sleepers
             /\ CASE out = "metaErr" ->
                       /\ ctl' = Return(c1, "", "failed to write metadata file")
                       /\ UNCHANGED <<fs, mounts>>
                  [] out = "mkdirErr" ->
                       /\ ctl' = Return(c2, "Internal", "failed to create directory")
                       /\ fs' = [fs EXCEPT ![id].dir = TRUE, ![id].meta = vol]
                       /\ UNCHANGED mounts
                  [] out \in {"mountErr", "mountErrRemoveErr"} /\ ~mntPoint ->
                       /\ ctl' = Return([c2 EXCEPT !.removed = TRUE,
                                                    !.removeErr = (out = "mountErrRemoveErr")],
                                        "Internal", "failed to mount path")
                       /\ fs' = IF out = "mountErr" THEN RemoveAll(fs, id)
                                ELSE [fs EXCEPT ![id].dir = TRUE, ![id].meta = vol]
                       /\ UNCHANGED mounts
                  [] OTHER ->
                       /\ fs' = [fs EXCEPT ![id].dir = TRUE, ![id].meta = vol]
                       /\ IF mntPoint
                          THEN /\ ctl' = Return(c2, "", "")
                               /\ UNCHANGED mounts
                          ELSE /\ ctl' = Return([c2 EXCEPT !.mounted = TRUE, !.notified = TRUE], "", "")
                               /\ mounts' = mounts \cup {vol.target}
    /\ iss' = NoIssue
    /\ UNCHANGED <<now, nextKey, crs, firing, fn, cancelled>>

\* NodeUnpublishVolume (lines 157-199)
NodeUnpublishVolume ==
    /\ ctl.pc = "idle"
    /\ \E volumeID \in Vols \cup {""}, targetPath \in Targets \cup {""},
          readOK \in BOOLEAN, unmountOK \in BOOLEAN, removeOK \in BOOLEAN :
         LET call == [NoCall EXCEPT !.op = "unpublish", !.id = volumeID, !.target = targetPath]
         IN  IF targetPath = "" \/ volumeID = ""
             THEN /\ ctl' = Return(call, "InvalidArgument", "missing in request")
                  /\ UNCHANGED <<fs, mounts, watching, sleepers, cancelled>>
             ELSE LET metaOK == readOK /\ fs[volumeID].dir /\ fs[volumeID].meta # NoVol
                      st == KillWatcher(watching, sleepers, volumeID)
                      c1 == [call EXCEPT !.metaOK = metaOK, !.killed = TRUE, !.unmounted = TRUE]
                  IN  /\ watching' = st.watching
                      /\ sleepers' = st.sleepers
                      /\ cancelled' = [cancelled EXCEPT ![volumeID] =
                                           IF unmountOK /\ removeOK THEN "removed" ELSE "watcher"]
                      /\ IF ~unmountOK
                         THEN /\ ctl' = Return([c1 EXCEPT !.unmountErr = TRUE], "", "")
                              /\ UNCHANGED <<fs, mounts>>
                         ELSE /\ mounts' = mounts \ {targetPath}
                              /\ IF ~removeOK
                                 THEN /\ ctl' = Return([c1 EXCEPT !.removed = TRUE, !.removeErr = TRUE],
                                                       "", "RemoveAll")
                                      /\ UNCHANGED fs
                                 ELSE /\ ctl' = Return([c1 EXCEPT !.removed = TRUE,
                                                                  !.notified = metaOK], "", "")
                                      /\ fs' = RemoveAll(fs, volumeID)
    /\ UNCHANGED <<now, nextKey, crs, iss, firing, fn>>

\* the response of the returned call reaches the orchestrator
Respond ==
    /\ ctl.pc = "done"
    /\ ctl' = NoCall
    /\ UNCHANGED <<now, nextKey, crs, fs, mounts, iss, watching, sleepers, firing, fn, cancelled>>

\* the filesystem as Discover reads it when the metadata files of the volumes in
\* corrupt cannot be parsed
ReadableView(fsys, corrupt) ==
    [id \in Vols |-> IF id \in corrupt THEN [fsys[id] EXCEPT !.meta = NoVol] ELSE fsys[id]]

\* Discover reports an error when a volume directory holds no metadata it can read
DiscoverFails(fsys, corrupt) ==
    \E id \in Vols : fsys[id].dir /\ ReadableView(fsys, corrupt)[id].meta = NoVol

\* a faulty start that keeps the registry of the stopped process
NewNodeServer_KeepsRenewer ==
    /\ Serving
    /\ \E corrupt \in SUBSET Vols :
         ctl' = Return([NoCall EXCEPT !.op = "start", !.corrupt = corrupt,
                                      !.discoverErr = DiscoverFails(fs, corrupt)], "", "")
    /\ iss' = NoIssue
    /\ firing' = {}
    /\ UNCHANGED <<now, nextKey, crs, fs, mounts, watching, sleepers, fn, cancelled>>

\* The process stops and is started again: NewNodeServer (lines 43-63) builds a
\* new renewer and runs Discover, whose error is only logged; the filesystem,
\* the mounts and the API server keep their state.  corrupt: the volumes whose
\* metadata file cannot be parsed at this start.
NewNodeServer ==
    /\ Serving
    /\ \E corrupt \in SUBSET Vols :
         LET st == Discover(ReadableView(fs, corrupt))
         IN  /\ ctl' = Return([NoCall EXCEPT !.op = "start", !.corrupt = corrupt,
                                             !.discoverErr = DiscoverFails(fs, corrupt)], "", "")
             /\ watching' = st.watching
             /\ sleepers' = st.sleepers
    /\ iss' = NoIssue
    /\ firing' = {}
    /\ cancelled' = [id \in Vols |-> "no"]
    /\ UNCHANGED <<now, nextKey, crs, fs, mounts, fn>>

----------------------------------------------------------------------------

Init ==
    /\ now = 0
    /\ nextKey = 1
    /\ crs = {}
    /\ fs = [id \in Vols |-> NoDir]
    /\ mounts = {}
    /\ ctl = NoCall
    /\ iss = NoIssue
    /\ watching = [id \in Vols |-> NoWatch]
    /\ sleepers = {}
    /\ firing = {}
    /\ cancelled = [id \in Vols |-> "no"]
    /\ fn = NoFn

Next ==
    \/ NodePublishVolume
    \/ PublishPolls
    \/ PublishWritesMetaData
    \/ PublishWritesFiles
    \/ PublishAfterIssue
    \/ NodeUnpublishVolume
    \/ Respond
    \/ NewNodeServer
    \/ \E s \in sleepers : RenewCertificate(s)
    \/ \E c \in firing : RenewalPolls(c)
    \/ \E c \in firing : RenewalWritesMetaData(c)
    \/ \E c \in firing : RenewalWritesFiles(c)
    \/ \E c \in firing : RenewDone(c)
    \/ AuthoritySign
    \/ AuthorityFail

Spec == Init /\ [][Next]_vars

----------------------------------------------------------------------------
(* Properties of the volume lifecycle controller *)

\* the call op has returned and its response is about to be delivered
Returned(op) == ctl.pc = "done" /\ ctl.op = op

\* the errors with which NodePublishVolume rejects a request before any work
ValidationErrors == {"validateVolumeAttributes", "ValidateAttributes"}

\* an unpublish call that passed the argument check has returned
UnpublishReturned == Returned("unpublish") /\ ctl.id # "" /\ ctl.target # ""

\* C1: a publish call that passed validation and created its directory while its
\* target path was already an active mount point returns success and has
\* performed no mount and no issuance: no call of the issuance engine, no
\* create, delete or poll of the CertificateRequest, no write of the
\* certificate or key file.
C1_RepublishIsNoOp ==
    ( /\ Returned("publish")
      /\ ctl.id \in Vols
      /\ ctl.target \in mounts
      /\ ~ctl.mounted
      /\ ctl.err \notin ValidationErrors \cup {"createVolume"} )
    => ( /\ ctl.code = ""
         /\ ctl.err = ""
         /\ ~ctl.issued
         /\ ~ctl.created
         /\ ~ctl.deleted
         /\ ~ctl.polled
         /\ ~ctl.wrote )

\* C2: every unpublish call that passed the argument check has attempted the
\* cancellation of the watcher, the unmount and the removal of the directory,
\* whichever of them failed.
C2_TeardownNeverAborts ==
    UnpublishReturned => (ctl.killed /\ ctl.unmounted /\ ctl.removed)

\* C3: an unpublish call that passed the argument check returns an error if and
\* only if its unmount failed.
C3_ErrorIffUnmountFailed ==
    UnpublishReturned => ((ctl.err # "" \/ ctl.code # "") <=> ctl.unmountErr)

\* C5: when publish fails at the bind mount and the removal of the directory
\* succeeds, then at the return of the call dataRoot/id does not exist, an error
\* is returned and no create notification was sent.
C5_MountFailureRemovesDirectory ==
    ( /\ Returned("publish")
      /\ ctl.err = "failed to mount path"
      /\ ~ctl.removeErr )
    => ( /\ ctl.issued
         /\ ctl.removed
         /\ fs[ctl.id] = NoDir
         /\ ctl.code = "Internal"
         /\ ~ctl.mounted
         /\ ctl.target \notin mounts
         /\ ~ctl.notified )

\* a publish call has returned the mount error after its issuance succeeded and
\* its removal of the directory succeeded
C5_Witness ==
    /\ Returned("publish")
    /\ ctl.err = "failed to mount path"
    /\ ctl.issued
    /\ ctl.wrote
    /\ ctl.removed
    /\ ~ctl.removeErr

PublishFailedEarly ==
    /\ Returned("publish")
    /\ ctl.err \in ValidationErrors \cup {"failed to create new certificate"}

\* a step of a publish call that has not got beyond its CreateNewCertificate call
EarlyPublishStep ==
    /\ ctl'.op = "publish"
    /\ ctl' # ctl \/ iss' # iss
    /\ ~(ctl.pc = "issue" /\ iss.pc = "ok")

\* C4 as stated: when a publish call that failed at validation or at issuance
\* returns, no watcher is registered for its id, it has mounted nothing and has
\* sent no create notification.
C4_AsStated ==
    (PublishFailedEarly /\ ctl.id \in Vols) =>
        (watching[ctl.id] = NoWatch /\ ~ctl.mounted /\ ~ctl.notified)

\* C4, amended: a publish call that fails at validation or at issuance registers
\* no watcher, mounts nothing and sends no create notification: none of its
\* steps changes the registry, the sleeping watchers or the mount table, so a
\* watcher an earlier publish of the id registered stays registered.
C4_FailingPublishRegistersNothing ==
    /\ [](PublishFailedEarly => (~ctl.watched /\ ~ctl.mounted /\ ~ctl.notified))
    /\ [][EarlyPublishStep =>
            (watching' = watching /\ sleepers' = sleepers /\ mounts' = mounts)]_vars

\* a publish call has failed at validation or issuance while the watcher of an
\* earlier publish of its id is registered
C4_Witness ==
    /\ PublishFailedEarly
    /\ ctl.id \in Vols
    /\ watching[ctl.id] # NoWatch
    /\ watching[ctl.id] \in sleepers

\* C10: the step with which a publish call returns success after its issuance
\* leaves a watcher registered for the id, armed with the NotAfter of the issued
\* certificate, if the disable-auto-renew attribute is not "true", and leaves
\* the registry as it was if the attribute is "true".
C10_WatcherIffRenewalEnabled ==
    [][(ctl.pc = "issue" /\ ctl'.pc = "done" /\ ctl'.op = "publish"
           /\ ctl'.err = "" /\ ctl'.code = "") =>
         IF Get(ctl.vol.attrs, "DisableAutoRenewKey") # "true"
         THEN /\ ctl'.issued
              /\ ctl'.watched
              /\ watching'[ctl.id] = [vol |-> ctl.vol, notAfter |-> iss.cr.cert.notAfter]
              /\ watching'[ctl.id] \in sleepers'
         ELSE /\ ctl'.issued
              /\ ~ctl'.watched
              /\ watching' = watching
              /\ sleepers' = sleepers]_vars

\* a publish call has returned success after an issuance and its watcher, armed
\* with the NotAfter of the persisted certificate, is registered and sleeping
C10_Witness ==
    /\ Returned("publish")
    /\ ctl.err = ""
    /\ ctl.code = ""
    /\ ctl.issued
    /\ ctl.watched
    /\ watching[ctl.id] \in sleepers
    /\ watching[ctl.id].notAfter = fs[ctl.id].cert.notAfter
    /\ watching[ctl.id].notAfter > 0

----------------------------------------------------------------------------
(* Properties of the issuance engine and of the renewal scheduler *)

\* the CreateNewCertificate calls in progress
Issuing == firing \cup (IF iss.pc = "none" THEN {} ELSE {iss})

\* the spec of a CertificateRequest: the signing request (common name and public
\* key), the duration, the CA flag and the issuer reference
SameSpec(a, b) ==
    /\ a.cn = b.cn
    /\ a.key = b.key
    /\ a.duration = b.duration
    /\ a.isCA = b.isCA
    /\ a.issuer = b.issuer

\* C7: at most one CertificateRequest exists per name and namespace, and the
\* resource a CreateNewCertificate call polls or has taken its certificate from
\* carries the spec the call desires.
C7_OneRequestWithDesiredSpec ==
    /\ \A a, b \in crs : (a.namespace = b.namespace /\ a.name = b.name) => a = b
    /\ \A c \in Issuing :
         LET desired == BuildCertificateRequest(c.vol, c.key)
         IN  /\ c.pc = "poll" =>
                  \A cr \in ApiGet(crs, desired.namespace, desired.name) : SameSpec(cr, desired)
             /\ c.pc \in {"wmeta", "wfiles", "ok"} => SameSpec(c.cr, desired)

\* C8: when the issuance of a renewal has succeeded, the NotAfter of the
\* certificate it persisted is strictly later than the NotAfter of the
\* certificate that was persisted when the watcher fired.
C8_RenewalAdvancesExpiry ==
    \A c \in firing : c.pc = "ok" => c.cr.cert.notAfter > c.before

\* the watchers of id that sleep, and the renewals of id in flight
Sleeping(id) == {s \in sleepers : s.vol.id = id}
Firing(id) == {c \in firing : c.vol.id = id}

----------------------------------------------------------------------------
(* Properties of the start of the process *)

\* the volumes Discover registers a watcher for at a start that has just returned
Rediscovered ==
    {id \in Vols : Discoverable(fs, id) /\ id \notin ctl.corrupt}

----------------------------------------------------------------------------
(* The validation functions on their own: a call with an argument drawn from
   the inputs below, and its return *)

\* attribute mappings in which every rule of ValidateAttributes is kept by some
\* and broken by others
ValidationInputs ==
    { [NoAttrs EXCEPT !["IssuerNameKey"] = issuer, !["IsCAKey"] = isCA,
                      !["DurationKey"] = duration, !["CertFileKey"] = certFile,
                      !["KeyFileKey"] = keyFile, !["RenewBeforeKey"] = renewBefore,
                      !["DisableAutoRenewKey"] = disable, !["ReusePrivateKey"] = reuse] :
        issuer \in {Absent, "", "ca-issuer"},
        isCA \in {Absent, "true", "yes"},
        duration \in {Absent, "2t", "bad"},
        certFile \in {Absent, "crt.pem", "../crt.pem"},
        keyFile \in {"key.pem", ".."},
        renewBefore \in {"", "bad"},
        disable \in {"false", "TRUE"},
        reuse \in {Absent, "1"} }

\* ValidateAttributes is called with fn.arg and returns
CallValidateAttributes ==
    /\ fn.name = "ValidateAttributes"
    /\ fn.pc = "call"
    /\ fn' = [fn EXCEPT !.pc = "done", !.res = ValidateAttributes(fn.arg)]
    /\ UNCHANGED <<now, nextKey, crs, fs, mounts, ctl, iss, watching, sleepers, firing, cancelled>>

\* publish requests in which every rule of validateVolumeAttributes is kept by
\* some and broken by others
RequestInputs ==
    { Request(id, target,
              [NoAttrs EXCEPT !["CSIEphemeralKey"] = ephemeral, !["CSIPodNameKey"] = name,
                              !["CSIPodNamespaceKey"] = namespace], cap) :
        id \in {"", "v1"}, target \in {"", "t1"}, cap \in {"nil", "mount", "block"},
        ephemeral \in {Absent, "", "true", "false"},
        name \in {Absent, "", "pod"}, namespace \in {Absent, "ns"} }

\* validateVolumeAttributes is called with fn.arg and returns
CallValidateVolumeAttributes ==
    /\ fn.name = "validateVolumeAttributes"
    /\ fn.pc = "call"
    /\ fn' = [fn EXCEPT !.pc = "done", !.res = validateVolumeAttributes(fn.arg)]
    /\ UNCHANGED <<now, nextKey, crs, fs, mounts, ctl, iss, watching, sleepers, firing, cancelled>>

\* createVolume calls: the directory exists or not, os.MkdirAll can fail or not
CreateVolumeInputs ==
    [id : Vols, target : Targets \cup {"t2"}, attr : PublishAttrs, mkdirOK : BOOLEAN]

\* createVolume is called with fn.arg on the filesystem and returns
CallCreateVolume ==
    /\ fn.name = "createVolume"
    /\ fn.pc = "call"
    /\ LET a == fn.arg
           r == createVolume(fs, a.id, a.target, a.attr, a.mkdirOK)
       IN  /\ fs' = r.fs
           /\ fn' = [fn EXCEPT !.pc = "done", !.res = <<r>>]
    /\ UNCHANGED <<now, nextKey, crs, mounts, ctl, iss, watching, sleepers, firing, cancelled>>

\* createVolume is called again with the same id, and returns
CallCreateVolumeAgain ==
    /\ fn.name = "createVolume"
    /\ fn.pc = "done"
    /\ \E target \in Targets, mkdirOK \in BOOLEAN :
         LET a == fn.arg
             r == createVolume(fs, a.id, target, a.attr, mkdirOK)
         IN  /\ fs' = r.fs
             /\ fn' = [fn EXCEPT !.pc = "again", !.res = Append(fn.res, r)]
    /\ UNCHANGED <<now, nextKey, crs, mounts, ctl, iss, watching, sleepers, firing, cancelled>>

InitValidation ==
    /\ now = 0
    /\ nextKey = 1
    /\ crs = {}
    /\ fs \in [Vols -> {NoDir, [NoDir EXCEPT !.dir = TRUE]}]
    /\ mounts = {}
    /\ ctl = NoCall
    /\ iss = NoIssue
    /\ watching = [id \in Vols |-> NoWatch]
    /\ sleepers = {}
    /\ firing = {}
    /\ cancelled = [id \in Vols |-> "no"]
    /\ fn \in {[NoFn EXCEPT !.name = "ValidateAttributes", !.pc = "call", !.arg = attr] :
                 attr \in ValidationInputs}
            \cup {[NoFn EXCEPT !.name = "validateVolumeAttributes", !.pc = "call", !.arg = req] :
                    req \in RequestInputs}
            \cup {[NoFn EXCEPT !.name = "createVolume", !.pc = "call", !.arg = a] :
                    a \in CreateVolumeInputs}

NextValidation ==
    \/ CallValidateAttributes
    \/ CallValidateVolumeAttributes
    \/ CallCreateVolume
    \/ CallCreateVolumeAgain

SpecValidation == InitValidation /\ [][NextValidation]_vars

\* the elements of a sequence
Range(seq) == {seq[i] : i \in 1..Len(seq)}

\* the keys whose rule the attribute mapping violates, as C12 lists the rules
ViolatedKeys(attr) ==
    LET val(k) == IF attr[k] = Absent THEN "" ELSE attr[k]
    IN  {k \in {"IssuerNameKey"} : val(k) = ""}
        \cup {k \in {"IsCAKey", "DisableAutoRenewKey", "ReusePrivateKey"} :
                val(k) # "" /\ val(k) \notin {"true", "false"}}
        \cup {k \in {"DurationKey", "RenewBeforeKey"} :
                val(k) # "" /\ val(k) \notin {"1t", "2t", "3t"}}
        \cup {k \in {"CertFileKey", "KeyFileKey"} : val(k) \in {"..", "../crt.pem", "a/../b"}}

\* C12: ValidateAttributes returns an error if and only if the mapping violates
\* some rule, and the error names the key of every violated rule, each once.
C12_AllViolationsReported ==
    (fn.name = "ValidateAttributes" /\ fn.pc = "done") =>
        /\ (fn.res # <<>>) <=> (ViolatedKeys(fn.arg) # {})
        /\ Range(fn.res) = ViolatedKeys(fn.arg)
        /\ Len(fn.res) = Cardinality(ViolatedKeys(fn.arg))

\* ValidateAttributes has returned one error that names three violated rules
C12_Witness ==
    /\ fn.name = "ValidateAttributes"
    /\ fn.pc = "done"
    /\ Len(fn.res) >= 3
    /\ "IssuerNameKey" \in Range(fn.res)
    /\ "ReusePrivateKey" \in Range(fn.res)

\* the rules of validateVolumeAttributes in the order of their messages
RequestRules ==
    <<"non-ephemeral", "pod name/namespace", "volume capability missing",
      "block access type not supported", "volume ID missing", "target path missing">>

\* the request breaks the rule, as C13 states the rules
BreaksRule(req, rule) ==
    LET attr == req.volumeContext
    IN  CASE rule = "non-ephemeral" ->
               ~(attr["CSIEphemeralKey"] \in {"true", "", Absent})
          [] rule = "pod name/namespace" ->
               attr["CSIPodNameKey"] = Absent \/ attr["CSIPodNamespaceKey"] = Absent
          [] rule = "volume capability missing" -> req.capability = "nil"
          [] rule = "block access type not supported" -> req.capability = "block"
          [] rule = "volume ID missing" -> req.volumeId = ""
          [] rule = "target path missing" -> req.targetPath = ""

\* C13: validateVolumeAttributes returns no error if and only if the request
\* breaks no rule, and otherwise one error that lists every broken rule in the
\* order non-ephemeral, pod name/namespace, capability, volume id, target path.
C13_RequestRulesInOrder ==
    (fn.name = "validateVolumeAttributes" /\ fn.pc = "done") =>
        /\ fn.res = SelectSeq(RequestRules, LAMBDA rule : BreaksRule(fn.arg, rule))
        /\ (fn.res = <<>>) <=> (\A i \in 1..Len(RequestRules) : ~BreaksRule(fn.arg, RequestRules[i]))

\* validateVolumeAttributes has returned one error that lists all five rules
C13_Witness ==
    /\ fn.name = "validateVolumeAttributes"
    /\ fn.pc = "done"
    /\ fn.res = <<"non-ephemeral", "pod name/namespace", "block access type not supported",
                  "volume ID missing", "target path missing">>

----------------------------------------------------------------------------
(* Further properties of the volume lifecycle controller *)

\* C14: every error NodePublishVolume returns carries the kind invalid-argument
\* or internal: invalid-argument when the request itself is rejected
\* (validateVolumeAttributes, defaulting, ValidateAttributes), internal when the
\* issuance or the mount failed.
C14_ErrorKinds ==
    (Returned("publish") /\ ctl.err # "") =>
        /\ ctl.code \in {"InvalidArgument", "Internal"}
        /\ ctl.err \in ValidationErrors => ctl.code = "InvalidArgument"
        /\ ctl.err \in {"failed to create new certificate", "failed to mount path"} =>
             ctl.code = "Internal"

\* C15: a createVolume call that returns no error has created the directory
\* dataRoot/id and returns the record whose path is that directory, whose id,
\* target path and attributes are its arguments and whose size is the quota; a
\* second call with the same id, made while the directory exists, returns no
\* error and the same path.
C15_CreateVolume ==
    (fn.name = "createVolume" /\ fn.pc \in {"done", "again"}) =>
        LET a == fn.arg
            r == fn.res[1]
        IN  /\ ~r.err =>
                 /\ fs[a.id].dir
                 /\ r.vol.path = <<"dataRoot", a.id>>
                 /\ r.vol.id = a.id
                 /\ r.vol.target = a.target
                 /\ r.vol.attrs = a.attr
                 /\ r.vol.size = 102400
            /\ (fn.pc = "again" /\ ~r.err) =>
                 /\ ~fn.res[2].err
                 /\ fn.res[2].vol.path = r.vol.path
                 /\ fn.res[2].vol.id = a.id
                 /\ fs[a.id].dir

\* createVolume has been called twice with the same id and another target path,
\* the second time with os.MkdirAll unable to create directories
C15_Witness ==
    /\ fn.name = "createVolume"
    /\ fn.pc = "again"
    /\ ~fn.res[1].err
    /\ ~fn.res[2].err
    /\ fn.res[2].vol.target # fn.res[1].vol.target
    /\ fn.res[2].vol.path = <<"dataRoot", fn.arg.id>>

\* the resources a poll of the call c observes
Observed(c) == ApiGet(crs, Namespace(c.vol), c.vol.id)

ObservedFailed(c) == \E cr \in Observed(c) : CertificateRequestFailed(cr)

ObservedReady(c) == \E cr \in Observed(c) : CertificateRequestReady(cr)

\* the call c has left the polling loop with a certificate
HasCertificate(c) == c.pc \in {"wmeta", "wfiles", "ok"}

\* the poll of the call c, which either ended the call with the error cause or
\* left it as next, did what the resource it observed demands
PollDoesAsObserved(c, ended, cause, next) ==
    /\ (Observed(c) = {} \/ ObservedFailed(c)) => ended
    /\ (~ObservedFailed(c) /\ ~ObservedReady(c) /\ c.polls + 1 >= MaxPolls) => ended
    /\ ended =>
         /\ cause \in {"get", "failed", "timeout"}
         /\ cause = "failed" => ObservedFailed(c)
         /\ cause = "timeout" =>
              ~ObservedFailed(c) /\ ~ObservedReady(c) /\ c.polls + 1 >= MaxPolls
    /\ ~ended =>
         /\ next.polls = c.polls + 1
         /\ next.vol = c.vol
         /\ IF ObservedReady(c)
            THEN next.pc = "wmeta" /\ next.cr \in Observed(c)
            ELSE next.pc = "poll" /\ next.polls < MaxPolls

\* the driver is not restarted in this step
NoRestart == ctl'.op # "start"

\* the controller's issue call makes a poll
PublishPollStep == ctl.pc = "issue" /\ iss.pc = "poll" /\ iss' # iss /\ NoRestart

\* the renewal c makes a poll
RenewalPollStep(c) == c \in firing /\ c.pc = "poll" /\ c \notin firing' /\ NoRestart

\* C16: an issue call holds a certificate only after a poll that observed the
\* resource Ready and not Failed; the poll that observes Failed, with or without
\* Ready, or whose get fails ends the call with an error; the poll that observes
\* neither is followed by another one unless it is the last the bound allows,
\* which ends the call with the timeout error.
C16_PollingOutcomes ==
    /\ [](\A c \in firing \cup {iss} :
            HasCertificate(c) =>
                /\ c.polls > 0
                /\ CertificateRequestReady(c.cr)
                /\ ~CertificateRequestFailed(c.cr))
    /\ [][/\ PublishPollStep =>
               PollDoesAsObserved(iss, ctl'.pc = "done", ctl'.cause, iss')
          /\ PublishPollStep /\ ctl'.pc = "done" =>
               ctl'.err # "" /\ iss' = NoIssue
          /\ \A c \in firing :
               RenewalPollStep(c) =>
                   \/ firing' = firing \ {c}
                        /\ PollDoesAsObserved(c, TRUE,
                              IF ObservedFailed(c) THEN "failed" ELSE
                              IF ~ObservedReady(c) /\ c.polls + 1 >= MaxPolls
                              THEN "timeout" ELSE "get", c)
                   \/ \E next \in firing' \ firing :
                        /\ firing' = (firing \ {c}) \cup {next}
                        /\ PollDoesAsObserved(c, FALSE, "", next)]_vars

\* a publish call has ended because its poll observed a resource marked Failed
\* together with Ready true
C16_Witness ==
    /\ Returned("publish")
    /\ ctl.cause = "failed"
    /\ \E cr \in crs : cr.name = ctl.id /\ cr.status = "readyfailed"

\* a publish call has ended with the timeout error
C16_WitnessTimeout == Returned("publish") /\ ctl.cause = "timeout"

\* an issue call holds a certificate after two polls
C16_WitnessSecondPoll == HasCertificate(iss) /\ iss.polls = 2

\* the polling goroutine of a publish call keeps running until the call returns
SpecLive ==
    /\ Init
    /\ [][Next]_vars
    /\ WF_vars(PublishPolls)
    /\ WF_vars(PublishWritesMetaData)
    /\ WF_vars(PublishWritesFiles)

\* the controller's issue call is in its polling loop
PublishPolling == ctl.pc = "issue" /\ iss.pc = "poll"

\* the controller's issue call has not returned
PublishIssuing == ctl.pc = "issue" /\ iss.pc \in {"poll", "wmeta", "wfiles"}

\* C17: no issue call, of a publish or of a renewal, makes more than MaxPolls
\* polls, and one that is in the polling loop has made fewer; the issue call of
\* a publish always leaves the polling loop and always returns, whatever the
\* authority does.
C17_IssueTerminates ==
    /\ [](\A c \in firing \cup {iss} :
            /\ c.polls <= MaxPolls
            /\ c.pc = "poll" => c.polls < MaxPolls)
    /\ (PublishPolling ~> ~PublishPolling)
    /\ (PublishIssuing ~> ~PublishIssuing)

\* a publish call has returned the timeout error after MaxPolls polls of a
\* request the authority never marked
C17_Witness ==
    /\ Returned("publish")
    /\ ctl.cause = "timeout"
    /\ ctl.polled
    /\ \E cr \in crs : cr.name = ctl.id /\ cr.status = "pending"

\* the firing renewal c ends in this step with an error
FailedFiring(c) ==
    /\ c \in firing
    /\ c.pc # "ok"
    /\ firing' = firing \ {c}
    /\ NoRestart

\* the timer of the watcher s expires in this step and the renewal fails at once
FailedAtOnce(s) ==
    /\ s \in sleepers
    /\ s \notin sleepers'
    /\ firing' = firing
    /\ ctl' = ctl

\* a failed firing registers no watcher
C18_NotRearmed ==
    [][/\ \A c \in firing : FailedFiring(c) => watching' = watching /\ sleepers' = sleepers
       /\ \A s \in sleepers :
            FailedAtOnce(s) => sleepers' = sleepers \ {s} /\ watching'[s.vol.id] # s]_vars

\* C18: the step in which a firing renewal fails registers no watcher and
\* leaves the certificate file of the volume as it was.
C18_FailedRenewalChangesNothing ==
    [][/\ \A c \in firing :
            FailedFiring(c) =>
                /\ watching' = watching
                /\ sleepers' = sleepers
                /\ fs'[c.vol.id].cert = fs[c.vol.id].cert
       /\ \A s \in sleepers :
            FailedAtOnce(s) =>
                /\ sleepers' = sleepers \ {s}
                /\ watching'[s.vol.id] # s
                /\ fs'[s.vol.id].cert = fs[s.vol.id].cert]_vars

\* C19: a volume id whose watcher NodeUnpublishVolume has cancelled has no
\* registered watcher, as long as the id is not published again and the driver
\* is not started again, also when a renewal of the id was in flight at the
\* cancellation.
C19_CancelledStaysCancelled ==
    \A id \in Vols : cancelled[id] # "no" => watching[id] = NoWatch /\ Sleeping(id) = {}

\* a successful renewal that was in flight when its volume was unpublished ends
\* after the cancellation
C19_RenewalOutlivesCancel ==
    \E c \in firing : c.pc = "ok" /\ cancelled[c.vol.id] # "no"

JustCreated(c) == c.created /\ c.pc = "poll" /\ c.polls = 0

\* the resource cr carries an owner reference to the pod of the volume vol
OwnedByPodOf(cr, vol) ==
    /\ cr.ownerKind = "Pod"
    /\ cr.ownerName = Get(vol.attrs, "CSIPodNameKey")
    /\ cr.ownerUID = Get(vol.attrs, "CSIPodUIDKey")

\* C21: the CertificateRequest an issue call creates, for a publish or for a
\* renewal, carries an owner reference of kind Pod whose name is the pod-name
\* attribute of the volume and whose uid is its pod-uid attribute.
C21_OwnerIsThePod ==
    [][\A c \in (firing' \cup {iss'}) \ (firing \cup {iss}) :
         JustCreated(c) =>
             \E cr \in crs' \ crs :
                 /\ cr.name = c.vol.id
                 /\ OwnedByPodOf(cr, c.vol)]_vars

\* the key file and the certificate file of the volume id form a pair in fsys
MatchingPair(fsys, id) == fsys[id].key # 0 /\ fsys[id].cert.key = fsys[id].key

\* C22: the step with which an issue call, of a publish or of a renewal, ends
\* successfully leaves in the volume directory a key file and a certificate
\* file that form a pair: the certificate carries the public half of the key.
C22_KeyMatchesCertificate ==
    [][\A c \in (firing' \cup {iss'}) \ (firing \cup {iss}) :
         c.pc = "ok" => MatchingPair(fs', c.vol.id)]_vars

\* the issue call c, of a publish or of a renewal, returns an error in this step
IssueFails(c) ==
    \/ c = iss /\ ctl.pc = "issue" /\ iss.pc \in {"poll", "wmeta", "wfiles"}
         /\ ctl'.pc = "done" /\ ctl'.op = "publish" /\ ctl'.err # ""
    \/ FailedFiring(c)

\* C23: the step in which an issue call returns an error changes no file of
\* the volume directory; together with the steps before it, an issue call that
\* fails has written nothing.
C23_FailedIssueWritesNothing ==
    [][\A c \in firing \cup {iss} :
         IssueFails(c) => ~c.wrote /\ fs'[c.vol.id] = fs[c.vol.id]]_vars

\* C24: while no publish or unpublish call is in progress, every volume id with
\* a registered watcher has its directory dataRoot/id.
C24_WatchedVolumeHasDirectory ==
    ctl.pc = "idle" => \A id \in Vols : watching[id] # NoWatch => fs[id].dir

\* C25: in every state, and so at every point at which the process can stop, a
\* volume directory that holds a metadata file holds a certificate file and a
\* key file too.
C25_MetaDataImpliesCertificateAndKey ==
    \A id \in Vols :
        (fs[id].dir /\ fs[id].meta # NoVol) => (fs[id].cert # NoCert /\ fs[id].key # 0)

\* the driver has started and found a metadata file without a certificate file
C25_StartWithoutCertificate ==
    /\ Returned("start")
    /\ \E id \in Vols : fs[id].dir /\ fs[id].meta # NoVol /\ fs[id].cert = NoCert
                        /\ id \notin ctl.corrupt /\ watching[id] = NoWatch

====
